---- MODULE Spec2Model ----
(***************************************************************************)
(* Model of scripts/aml/train_aml.py: the Azure ML wrapper that locates a  *)
(* CogACT checkpoint, rewrites the command line and launches torchrun.     *)
(*                                                                         *)
(* Strings are sequences of lexemes, so that concatenation is \o and       *)
(* str.startswith is the sequence-prefix test.  "CogACT/CogACT-Base" is    *)
(* <<"CogACT", "/", "CogACT-Base">>, a mount path such as "/mnt/ckpt" is   *)
(* the single lexeme <<"/mnt/ckpt">>, and the empty string is <<>>.  No    *)
(* lexeme of the model starts with the characters of "CogACT/" or "${{"    *)
(* except the lexemes "CogACT" and "${{" themselves.  Python's None is the *)
(* one-lexeme sequence None, which is no string of the model.              *)
(***************************************************************************)
EXTENDS Integers, Sequences, FiniteSets, TLC

VARIABLES
    environ,                \* os.environ: variable name -> string or None
    argv,                   \* sys.argv[1:]
    fs,                     \* the filesystem: paths, dirs, listing, unlistable
    token_file,             \* what setup_hf_token wrote to <HF_HOME>/token
    pc,                     \* position in main (or in the function under check)
    result,                 \* main's outcome: running, returned(status), raised(exc, at)
    model_checkpoints_dir,  \* main's locals / resolve_pretrained_checkpoint's parameters
    dataset_dir,
    output_dir,
    hf_cache_dir,
    gpu_count,
    args,
    pretrained_checkpoint,
    resolved_checkpoint,
    cmd,
    child,                  \* the launched child process
    base_dir,               \* find_checkpoint_in_directory's parameter
    found                   \* find_checkpoint_in_directory's return value

vars == <<environ, argv, fs, token_file, pc, result, model_checkpoints_dir,
          dataset_dir, output_dir, hf_cache_dir, gpu_count, args,
          pretrained_checkpoint, resolved_checkpoint, cmd, child, base_dir, found>>

-----------------------------------------------------------------------------
(* Bounds of the model. *)

MaxArgs == 3

MaxSnapshots == 2

MaxFiles == 2

-----------------------------------------------------------------------------
(* Python values. *)

None == <<"<None>">>

\* bool(s) of a string or None: `if s`, `if not s`
Truthy(s) == s # None /\ s # <<>>

\* str.startswith
StartsWith(s, prefix) ==
    Len(s) >= Len(prefix) /\ SubSeq(s, 1, Len(prefix)) = prefix

\* os.path.join(a, b) of a non-empty a that does not end in a separator and a relative b
Join(a, b) == a \o <<"/">> \o b

DigitChar == <<"0", "1", "2", "3", "4", "5", "6", "7", "8", "9">>

\* str(n) of an integer
RECURSIVE IntToStr(_)
IntToStr(n) ==
    IF n < 0 THEN <<"-">> \o IntToStr(0 - n)
    ELSE IF n < 10 THEN <<DigitChar[n + 1]>>
    ELSE IntToStr(n \div 10) \o <<DigitChar[(n % 10) + 1]>>

IsDigit(c) == \E d \in 1..10 : DigitChar[d] = c

DigitValue(c) == (CHOOSE d \in 1..10 : DigitChar[d] = c) - 1

\* int(s) accepts an optional sign and decimal digits (surrounding blanks and
\* underscores are not modelled); anything else raises ValueError
IsIntLiteral(s) ==
    LET body == IF Len(s) > 0 /\ s[1] \in {"-", "+"} THEN Tail(s) ELSE s
    IN  Len(body) > 0 /\ \A i \in 1..Len(body) : IsDigit(body[i])

RECURSIVE DigitsToInt(_)
DigitsToInt(s) ==
    IF Len(s) = 0 THEN 0
    ELSE 10 * DigitsToInt(SubSeq(s, 1, Len(s) - 1)) + DigitValue(s[Len(s)])

ParseInt(s) ==
    IF s[1] = "-" THEN 0 - DigitsToInt(Tail(s))
    ELSE IF s[1] = "+" THEN DigitsToInt(Tail(s))
    ELSE DigitsToInt(s)

-----------------------------------------------------------------------------
(* Program constants. *)

DEFAULT_HF_MODEL_ID == <<"CogACT", "/", "CogACT-Base">>

CHECKPOINT_FILENAMES ==
    << <<"CogACT-Base.pt">>, <<"pytorch_model.bin">>, <<"model.safetensors">> >>

DEFAULT_GPU_COUNT == 4

\* the literal "CogACT/" of resolve_pretrained_checkpoint
NamespacePrefix == <<"CogACT", "/">>

\* the literal "${{" of resolve_input_mount
PlaceholderPrefix == <<"${{">>

InterceptedFlags == { <<"--pretrained_checkpoint">>, <<"--hf_token">> }

ModelDirName == <<"models--CogACT--CogACT-Base">>

-----------------------------------------------------------------------------
(* The filesystem: the set of existing paths, those that are directories,  *)
(* the order in which os.listdir yields a directory's entries, and the     *)
(* directories os.listdir fails on with OSError.                           *)

Exists(F, path) == path \in F.paths

IsDir(F, path) == path \in F.dirs

FilenameIndices == 1..Len(CHECKPOINT_FILENAMES)

-----------------------------------------------------------------------------
(* find_checkpoint_in_directory *)

\* the `for filename in checkpoint_files` loops: one candidate per filename, in order
FilesIn(dir) ==
    [k \in FilenameIndices |-> Join(dir, CHECKPOINT_FILENAMES[k])]

\* the body of `for snapshot_id in os.listdir(snapshots_dir)`
SnapshotCandidates(F, snapshots_dir, snapshot_id) ==
    LET snapshot_path == Join(snapshots_dir, snapshot_id)
        checkpoints_subdir == Join(snapshot_path, <<"checkpoints">>)
    IN  IF IsDir(F, snapshot_path)
        THEN FilesIn(snapshot_path)
             \o (IF Exists(F, checkpoints_subdir)
                 THEN FilesIn(checkpoints_subdir) ELSE <<>>)
        ELSE <<>>

RECURSIVE SnapshotsLoop(_, _, _, _)
SnapshotsLoop(F, snapshots_dir, entries, k) ==
    IF k > Len(entries) THEN <<>>
    ELSE SnapshotCandidates(F, snapshots_dir, entries[k])
         \o SnapshotsLoop(F, snapshots_dir, entries, k + 1)

\* a search that looks into the snapshots before the base directory's own files
PossibleCheckpointPaths_SnapshotsFirst(F, dir) ==
    LET cogact_model_dir == Join(dir, ModelDirName)
        snapshots_dir == Join(cogact_model_dir, <<"snapshots">>)
    IN  (IF Exists(F, cogact_model_dir) /\ Exists(F, snapshots_dir)
         THEN IF snapshots_dir \in F.unlistable
              THEN <<>>
              ELSE SnapshotsLoop(F, snapshots_dir, F.listing[snapshots_dir], 1)
         ELSE <<>>)
        \o FilesIn(dir)

\* possible_checkpoint_paths
PossibleCheckpointPaths(F, dir) ==
    LET cogact_model_dir == Join(dir, ModelDirName)
        snapshots_dir == Join(cogact_model_dir, <<"snapshots">>)
    IN  FilesIn(dir)
        \o (IF Exists(F, cogact_model_dir) /\ Exists(F, snapshots_dir)
            THEN IF snapshots_dir \in F.unlistable
                 THEN <<>>      \* os.listdir raised OSError: except OSError: pass
                 ELSE SnapshotsLoop(F, snapshots_dir, F.listing[snapshots_dir], 1)
            ELSE <<>>)

\* `for path in possible_checkpoint_paths: if os.path.exists(path): return path`
RECURSIVE FirstExisting(_, _, _)
FirstExisting(F, paths, k) ==
    IF k > Len(paths) THEN None
    ELSE IF Exists(F, paths[k]) THEN paths[k]
    ELSE FirstExisting(F, paths, k + 1)

FindCheckpointInDirectory(F, dir) ==
    IF ~Truthy(dir) \/ ~Exists(F, dir) THEN None
    ELSE FirstExisting(F, PossibleCheckpointPaths(F, dir), 1)

-----------------------------------------------------------------------------
(* Directory trees the search is run on.  A tree is described by which     *)
(* checkpoint files lie at its root, whether the HuggingFace model         *)
(* directory and its snapshots directory exist, and the snapshot entries   *)
(* in os.listdir order, each a plain file or a directory with files and an *)
(* optional checkpoints/ subdirectory.                                     *)

SnapshotId(k) == <<"snap">> \o IntToStr(k)

FileSets(n) == { s \in SUBSET FilenameIndices : Cardinality(s) <= n }

SnapshotKinds(n) ==
    { [isdir |-> FALSE, files |-> {}, ckdir |-> FALSE, ckfiles |-> {}] }
    \cup { [isdir |-> TRUE, files |-> f, ckdir |-> FALSE, ckfiles |-> {}] :
             f \in FileSets(n) }
    \cup { [isdir |-> TRUE, files |-> f, ckdir |-> TRUE, ckfiles |-> c] :
             f \in FileSets(n), c \in FileSets(n) }

SnapshotFileCount(kind) == Cardinality(kind.files) + Cardinality(kind.ckfiles)

\* the sequences of exactly len snapshot entries holding at most n files in all
RECURSIVE SnapshotSeqs(_, _)
SnapshotSeqs(len, n) ==
    IF len = 0 THEN { <<>> }
    ELSE UNION { { <<kind>> \o rest : rest \in SnapshotSeqs(len - 1, n - SnapshotFileCount(kind)) } :
                   kind \in { k \in SnapshotKinds(n) : SnapshotFileCount(k) <= n } }

EmptyTree == [root |-> {}, model |-> "none", listable |-> TRUE, snaps |-> <<>>]

Trees(maxSnapshots, maxFiles) ==
    { [root |-> r, model |-> m, listable |-> TRUE, snaps |-> <<>>] :
        r \in FileSets(maxFiles), m \in {"none", "dir"} }
    \cup UNION { UNION { { [root |-> r, model |-> "snapshots", listable |-> l, snaps |-> s] :
                            l \in BOOLEAN,
                            s \in SnapshotSeqs(len, maxFiles - Cardinality(r)) } :
                          len \in 0..maxSnapshots } :
                  r \in FileSets(maxFiles) }

\* the filesystem holding tree t at directory dir
TreeFiles(dir, t) ==
    LET model_dir == Join(dir, ModelDirName)
        snapshots_dir == Join(model_dir, <<"snapshots">>)
        snap(k) == Join(snapshots_dir, SnapshotId(k))
        ck(k) == Join(snap(k), <<"checkpoints">>)
        n == Len(t.snaps)
        isdir == { k \in 1..n : t.snaps[k].isdir }
        ckdir == { k \in 1..n : t.snaps[k].ckdir }
        dirs == {dir}
                \cup (IF t.model # "none" THEN {model_dir} ELSE {})
                \cup (IF t.model = "snapshots" THEN {snapshots_dir} ELSE {})
                \cup { snap(k) : k \in isdir }
                \cup { ck(k) : k \in ckdir }
        files == { Join(dir, CHECKPOINT_FILENAMES[f]) : f \in t.root }
                 \cup { snap(k) : k \in 1..n }
                 \cup UNION { { Join(snap(k), CHECKPOINT_FILENAMES[f]) :
                                  f \in t.snaps[k].files } : k \in 1..n }
                 \cup UNION { { Join(ck(k), CHECKPOINT_FILENAMES[f]) :
                                  f \in t.snaps[k].ckfiles } : k \in 1..n }
    IN  [paths |-> dirs \cup files,
         dirs |-> dirs,
         listing |-> IF t.model = "snapshots"
                     THEN (snapshots_dir :> [k \in 1..n |-> SnapshotId(k)])
                     ELSE <<>>,
         unlistable |-> IF t.model = "snapshots" /\ ~t.listable
                        THEN {snapshots_dir} ELSE {}]

\* two filesystems over disjoint directories, as one
Merge(F, G) ==
    [paths |-> F.paths \cup G.paths,
     dirs |-> F.dirs \cup G.dirs,
     listing |-> F.listing @@ G.listing,
     unlistable |-> F.unlistable \cup G.unlistable]

-----------------------------------------------------------------------------
(* Names of the mounts and of the values the inputs are drawn from. *)

CkptMount == <<"/mnt/ckpt">>

CacheMount == <<"/mnt/cache">>

DataMount == <<"/mnt/data">>

OutMount == <<"/mnt/out">>

MissingPath == <<"/mnt/missing">>

Placeholder == <<"${{", "inputs.dir", "}}">>

Secret == <<"hf_s3cr3t">>

Idle == [kind |-> "running"]

NoChild == [state |-> "none"]

-----------------------------------------------------------------------------
(* The environment. *)

HF_TOKEN == "HF_TOKEN"

HF_HOME == "HF_HOME"

GPU_COUNT == "GPU_COUNT"

CheckpointsDirVars ==
    <<"AZURE_ML_INPUT_COGACT_CHECKPOINTS_DIR", "COGACT_CHECKPOINTS_DIR", "cogact_checkpoints_dir">>

DatasetDirVars == <<"AZURE_ML_INPUT_DATASET_DIR", "DATASET_DIR", "dataset_dir">>

OutputDirVars == <<"AZURE_ML_OUTPUT_CHECKPOINTS_DIR", "CHECKPOINTS_DIR", "checkpoints_dir">>

HfCacheDirVars == <<"AZURE_ML_OUTPUT_HF_CACHE_DIR", "HF_CACHE_DIR", "hf_cache_dir">>

Range(seq) == { seq[k] : k \in DOMAIN seq }

EnvNames ==
    {HF_TOKEN, HF_HOME, GPU_COUNT, "TRANSFORMERS_CACHE", "HUGGINGFACE_HUB_CACHE"}
    \cup Range(CheckpointsDirVars) \cup Range(DatasetDirVars)
    \cup Range(OutputDirVars) \cup Range(HfCacheDirVars)

NoEnviron == [name \in EnvNames |-> None]

\* os.path.expanduser("~/.cache/huggingface")
DefaultHfHome == <<"/root/.cache/huggingface">>

\* os.makedirs(path, exist_ok=True)
MakeDirs(F, path) ==
    [F EXCEPT !.paths = @ \cup {path}, !.dirs = @ \cup {path}]

\* open(path, "w")
CreateFile(F, path) == [F EXCEPT !.paths = @ \cup {path}]

Raised(exc, at) == [kind |-> "raised", exc |-> exc, at |-> at]

Returned(status) == [kind |-> "returned", status |-> status]

-----------------------------------------------------------------------------
(* setup_hf_token *)

SetupHfToken ==
    /\ pc = "setup_hf_token"
    /\ LET hf_token == environ[HF_TOKEN]
           hf_home == IF environ[HF_HOME] # None THEN environ[HF_HOME] ELSE DefaultHfHome
           token_path == Join(hf_home, <<"token">>)
       IN  IF ~Truthy(hf_token)
           THEN /\ result' = Raised("ValueError", "setup_hf_token")
                /\ pc' = "crashed"
                /\ UNCHANGED <<fs, token_file>>
           ELSE \E written \in BOOLEAN :
                  IF written
                  THEN /\ fs' = CreateFile(MakeDirs(fs, hf_home), token_path)
                       /\ token_file' = hf_token
                       /\ pc' = "resolve_mounts"
                       /\ UNCHANGED result
                  ELSE \* os.makedirs or open failed
                       /\ result' = Raised("OSError", "setup_hf_token")
                       /\ pc' = "crashed"
                       /\ UNCHANGED <<fs, token_file>>
    /\ UNCHANGED <<environ, argv, model_checkpoints_dir, dataset_dir, output_dir,
                   hf_cache_dir, gpu_count, args, pretrained_checkpoint,
                   resolved_checkpoint, cmd, child, base_dir, found>>

-----------------------------------------------------------------------------
(* resolve_input_mount *)

RECURSIVE ResolveInputMountLoop(_, _, _, _)
ResolveInputMountLoop(E, F, env_var_names, k) ==
    IF k > Len(env_var_names) THEN None
    ELSE LET path == E[env_var_names[k]]
         IN  IF Truthy(path) /\ ~StartsWith(path, PlaceholderPrefix) /\ Exists(F, path)
             THEN path
             ELSE ResolveInputMountLoop(E, F, env_var_names, k + 1)

ResolveInputMount(E, F, env_var_names) ==
    ResolveInputMountLoop(E, F, env_var_names, 1)

\* main, lines 273-284
ResolveMounts ==
    /\ pc = "resolve_mounts"
    /\ model_checkpoints_dir' = ResolveInputMount(environ, fs, CheckpointsDirVars)
    /\ dataset_dir' = ResolveInputMount(environ, fs, DatasetDirVars)
    /\ output_dir' = ResolveInputMount(environ, fs, OutputDirVars)
    /\ hf_cache_dir' = ResolveInputMount(environ, fs, HfCacheDirVars)
    /\ pc' = "setup_model_cache"
    /\ UNCHANGED <<environ, argv, fs, token_file, result, gpu_count, args,
                   pretrained_checkpoint, resolved_checkpoint, cmd, child,
                   base_dir, found>>

-----------------------------------------------------------------------------
(* setup_model_cache, as main calls it (its return value is dropped) *)

SetupModelCache ==
    /\ pc = "setup_model_cache"
    /\ IF Truthy(hf_cache_dir)
       THEN /\ pc' = "gpu_count"
            /\ UNCHANGED <<environ, fs, result>>
       ELSE IF Truthy(output_dir)
       THEN LET cache_dir == Join(output_dir, <<"hf_cache">>)
            IN  \E created \in BOOLEAN :
                  IF created
                  THEN /\ fs' = MakeDirs(fs, cache_dir)
                       /\ environ' =
                            [environ EXCEPT
                               ![HF_HOME] = cache_dir,
                               !["TRANSFORMERS_CACHE"] = Join(cache_dir, <<"transformers">>),
                               !["HUGGINGFACE_HUB_CACHE"] = Join(cache_dir, <<"hub">>)]
                       /\ pc' = "gpu_count"
                       /\ UNCHANGED result
                  ELSE \* os.makedirs failed
                       /\ result' = Raised("OSError", "setup_model_cache")
                       /\ pc' = "crashed"
                       /\ UNCHANGED <<environ, fs>>
       ELSE /\ result' = Raised("ValueError", "setup_model_cache")
            /\ pc' = "crashed"
            /\ UNCHANGED <<environ, fs>>
    /\ UNCHANGED <<argv, token_file, model_checkpoints_dir, dataset_dir, output_dir,
                   hf_cache_dir, gpu_count, args, pretrained_checkpoint,
                   resolved_checkpoint, cmd, child, base_dir, found>>

-----------------------------------------------------------------------------
(* main, lines 314-325: the worker count and the fixed command prefix.      *)
(* Lines 289-312 before it only log directory listings (an OSError of      *)
(* os.listdir is caught there) and change no state.                        *)

GpuCount ==
    /\ pc = "gpu_count"
    /\ LET value == environ[GPU_COUNT]
       IN  IF value = None
           THEN /\ gpu_count' = DEFAULT_GPU_COUNT
                /\ cmd' = << <<"torchrun">>, <<"--standalone">>, <<"--nproc-per-node">>,
                             IntToStr(DEFAULT_GPU_COUNT), <<"scripts/train.py">> >>
                /\ pc' = "process_args"
                /\ UNCHANGED result
           ELSE IF IsIntLiteral(value)
           THEN /\ gpu_count' = ParseInt(value)
                /\ cmd' = << <<"torchrun">>, <<"--standalone">>, <<"--nproc-per-node">>,
                             IntToStr(ParseInt(value)), <<"scripts/train.py">> >>
                /\ pc' = "process_args"
                /\ UNCHANGED result
           ELSE /\ result' = Raised("ValueError", "gpu_count")
                /\ pc' = "crashed"
                /\ UNCHANGED <<gpu_count, cmd>>
    /\ UNCHANGED <<environ, argv, fs, token_file, model_checkpoints_dir, dataset_dir,
                   output_dir, hf_cache_dir, args, pretrained_checkpoint,
                   resolved_checkpoint, child, base_dir, found>>

-----------------------------------------------------------------------------
(* process_command_line_args *)

\* a scan that intercepts --pretrained_checkpoint only
RECURSIVE ScanLoop_OnlyCheckpoint(_, _, _)
ScanLoop_OnlyCheckpoint(raw, k, skip_next) ==
    IF k > Len(raw) THEN <<>>
    ELSE IF skip_next THEN ScanLoop_OnlyCheckpoint(raw, k + 1, FALSE)
    ELSE IF raw[k] = <<"--pretrained_checkpoint">>
         THEN ScanLoop_OnlyCheckpoint(raw, k + 1, TRUE)
    ELSE <<k>> \o ScanLoop_OnlyCheckpoint(raw, k + 1, FALSE)

\* the first loop: the indices of sys.argv[1:] appended to filtered_args
RECURSIVE ScanLoop(_, _, _)
ScanLoop(raw, k, skip_next) ==
    IF k > Len(raw) THEN <<>>
    ELSE IF skip_next THEN ScanLoop(raw, k + 1, FALSE)
    ELSE IF raw[k] \in InterceptedFlags THEN ScanLoop(raw, k + 1, TRUE)
    ELSE <<k>> \o ScanLoop(raw, k + 1, FALSE)

KeptIndices(raw) == ScanLoop(raw, 1, FALSE)

FilteredArgs(raw) ==
    LET kept == KeptIndices(raw) IN [j \in 1..Len(kept) |-> raw[kept[j]]]

\* the second loop: the index of the value it returns, 0 for None
RECURSIVE ExtractLoop(_, _)
ExtractLoop(raw, k) ==
    IF k > Len(raw) THEN 0
    ELSE IF raw[k] = <<"--pretrained_checkpoint">> /\ k + 1 <= Len(raw) THEN k + 1
    ELSE ExtractLoop(raw, k + 1)

PreferenceIndex(raw) == ExtractLoop(raw, 1)

UserCheckpointPreference(raw) ==
    IF PreferenceIndex(raw) = 0 THEN None ELSE raw[PreferenceIndex(raw)]

\* the tokens the command line is made of
RawTokens ==
    { <<"--pretrained_checkpoint">>, <<"--hf_token">>, <<"--data_root_dir">>,
      Secret, <<"CogACT", "/", "CogACT-Large">> }

ArgSeqs == UNION { [1..len -> RawTokens] : len \in 0..MaxArgs }

\* an argument pipeline that rejects an intercepted flag without a value
ProcessCommandLineArgs_RejectsTrailingFlag ==
    /\ pc = "process_args"
    /\ \E raw \in ArgSeqs :
          /\ argv' = raw
          /\ IF Len(raw) > 0 /\ raw[Len(raw)] \in InterceptedFlags
             THEN /\ result' = Raised("ArgumentError", "process_args")
                  /\ pc' = "crashed"
                  /\ UNCHANGED <<args, pretrained_checkpoint>>
             ELSE /\ args' = FilteredArgs(raw)
                  /\ pretrained_checkpoint' = UserCheckpointPreference(raw)
                  /\ pc' = "add_token"
                  /\ UNCHANGED result
    /\ UNCHANGED <<environ, fs, token_file, model_checkpoints_dir, dataset_dir,
                   output_dir, hf_cache_dir, gpu_count, resolved_checkpoint, cmd,
                   child, base_dir, found>>

\* main, line 350; sys.argv is read here for the first time
ProcessCommandLineArgs ==
    /\ pc = "process_args"
    /\ \E raw \in ArgSeqs :
          /\ argv' = raw
          /\ args' = FilteredArgs(raw)
          /\ pretrained_checkpoint' = UserCheckpointPreference(raw)
    /\ pc' = "add_token"
    /\ UNCHANGED <<environ, fs, token_file, result, model_checkpoints_dir, dataset_dir,
                   output_dir, hf_cache_dir, gpu_count, resolved_checkpoint, cmd,
                   child, base_dir, found>>

\* main, line 355
AddToken ==
    /\ pc = "add_token"
    /\ args' = args \o << <<"--hf_token">>, <<"HF_TOKEN">> >>
    /\ pc' = "resolve_step1"
    /\ UNCHANGED <<environ, argv, fs, token_file, result, model_checkpoints_dir,
                   dataset_dir, output_dir, hf_cache_dir, gpu_count,
                   pretrained_checkpoint, resolved_checkpoint, cmd, child,
                   base_dir, found>>

-----------------------------------------------------------------------------
(* resolve_pretrained_checkpoint: four steps, each returning or falling    *)
(* through to the next.  pc = "add_checkpoint" is the return.              *)

ResolverFrame ==
    <<environ, argv, fs, token_file, result, model_checkpoints_dir, dataset_dir,
      output_dir, hf_cache_dir, gpu_count, args, pretrained_checkpoint, cmd,
      child, base_dir, found>>

\* a resolver that answers a prefixed override with the default identifier
Step1Override_ReturnsDefault ==
    /\ pc = "resolve_step1"
    /\ IF Truthy(pretrained_checkpoint)
          /\ StartsWith(pretrained_checkpoint, NamespacePrefix)
       THEN /\ resolved_checkpoint' = DEFAULT_HF_MODEL_ID
            /\ pc' = "add_checkpoint"
       ELSE /\ pc' = "resolve_step2"
            /\ UNCHANGED resolved_checkpoint
    /\ UNCHANGED ResolverFrame

Step1Override ==
    /\ pc = "resolve_step1"
    /\ IF Truthy(pretrained_checkpoint)
          /\ StartsWith(pretrained_checkpoint, NamespacePrefix)
       THEN /\ resolved_checkpoint' = pretrained_checkpoint
            /\ pc' = "add_checkpoint"
       ELSE /\ pc' = "resolve_step2"
            /\ UNCHANGED resolved_checkpoint
    /\ UNCHANGED ResolverFrame

\* a resolver that takes a cached checkpoint before it looks at the local mount
Step2LocalMount_CacheFirst ==
    /\ pc = "resolve_step2"
    /\ LET cached_checkpoint ==
               IF Truthy(hf_cache_dir)
               THEN FindCheckpointInDirectory(fs, hf_cache_dir)
               ELSE None
           local_checkpoint ==
               IF Truthy(model_checkpoints_dir)
               THEN FindCheckpointInDirectory(fs, model_checkpoints_dir)
               ELSE None
       IN  IF Truthy(cached_checkpoint)
           THEN /\ resolved_checkpoint' = cached_checkpoint
                /\ pc' = "add_checkpoint"
           ELSE IF Truthy(local_checkpoint)
           THEN /\ resolved_checkpoint' = local_checkpoint
                /\ pc' = "add_checkpoint"
           ELSE /\ pc' = "resolve_step3"
                /\ UNCHANGED resolved_checkpoint
    /\ UNCHANGED ResolverFrame

Step2LocalMount ==
    /\ pc = "resolve_step2"
    /\ LET local_checkpoint ==
               IF Truthy(model_checkpoints_dir)
               THEN FindCheckpointInDirectory(fs, model_checkpoints_dir)
               ELSE None
       IN  IF Truthy(local_checkpoint)
           THEN /\ resolved_checkpoint' = local_checkpoint
                /\ pc' = "add_checkpoint"
           ELSE /\ pc' = "resolve_step3"
                /\ UNCHANGED resolved_checkpoint
    /\ UNCHANGED ResolverFrame

Step3CacheMount ==
    /\ pc = "resolve_step3"
    /\ LET cached_checkpoint ==
               IF Truthy(hf_cache_dir)
               THEN FindCheckpointInDirectory(fs, hf_cache_dir)
               ELSE None
       IN  IF Truthy(cached_checkpoint)
           THEN /\ resolved_checkpoint' = cached_checkpoint
                /\ pc' = "add_checkpoint"
           ELSE /\ pc' = "resolve_step4"
                /\ UNCHANGED resolved_checkpoint
    /\ UNCHANGED ResolverFrame

\* a resolver whose last step reports "not found"
Step4RemoteFallback_NotFound ==
    /\ pc = "resolve_step4"
    /\ resolved_checkpoint' = None
    /\ pc' = "add_checkpoint"
    /\ UNCHANGED ResolverFrame

Step4RemoteFallback ==
    /\ pc = "resolve_step4"
    /\ resolved_checkpoint' = DEFAULT_HF_MODEL_ID
    /\ pc' = "add_checkpoint"
    /\ UNCHANGED ResolverFrame

-----------------------------------------------------------------------------
(* main, lines 363-388 *)

AddCheckpoint ==
    /\ pc = "add_checkpoint"
    /\ args' = args \o << <<"--pretrained_checkpoint">>, resolved_checkpoint >>
    /\ pc' = "add_dirs"
    /\ UNCHANGED <<environ, argv, fs, token_file, result, model_checkpoints_dir,
                   dataset_dir, output_dir, hf_cache_dir, gpu_count,
                   pretrained_checkpoint, resolved_checkpoint, cmd, child,
                   base_dir, found>>

\* an assembly that gives up when the dataset directory is missing
AddDirs_RequiresDataset ==
    /\ pc = "add_dirs"
    /\ IF Truthy(dataset_dir)
       THEN /\ args' = args \o << <<"--data_root_dir">>, dataset_dir >>
                       \o (IF Truthy(output_dir)
                           THEN << <<"--run_root_dir">>, output_dir >> ELSE <<>>)
            /\ cmd' = cmd \o args'
            /\ pc' = "launch"
            /\ UNCHANGED result
       ELSE /\ result' = Raised("ValueError", "add_dirs")
            /\ pc' = "crashed"
            /\ UNCHANGED <<args, cmd>>
    /\ UNCHANGED <<environ, argv, fs, token_file, model_checkpoints_dir,
                   dataset_dir, output_dir, hf_cache_dir, gpu_count,
                   pretrained_checkpoint, resolved_checkpoint, child, base_dir, found>>

\* lines 369-378: the auxiliary directories, then cmd.extend(args)
AddDirs ==
    /\ pc = "add_dirs"
    /\ LET with_data ==
               IF Truthy(dataset_dir)
               THEN args \o << <<"--data_root_dir">>, dataset_dir >> ELSE args
           with_out ==
               IF Truthy(output_dir)
               THEN with_data \o << <<"--run_root_dir">>, output_dir >> ELSE with_data
       IN  /\ args' = with_out
           /\ cmd' = cmd \o with_out
    /\ pc' = "launch"
    /\ UNCHANGED <<environ, argv, fs, token_file, result, model_checkpoints_dir,
                   dataset_dir, output_dir, hf_cache_dir, gpu_count,
                   pretrained_checkpoint, resolved_checkpoint, child, base_dir, found>>

\* what subprocess.run(cmd, check=False) can do
ReturnCodes == {0, 1, 0 - 9}

LaunchErrors == {"OSError", "SubprocessError"}

\* a launch that reports every failure of the child as 1
Launch_CollapsesStatus ==
    /\ pc = "launch"
    /\ \/ \E returncode \in ReturnCodes :
            /\ child' = [state |-> "exited", returncode |-> returncode]
            /\ result' = Returned(IF returncode = 0 THEN 0 ELSE 1)
       \/ \E e \in LaunchErrors :
            /\ child' = [state |-> "unstartable", error |-> e]
            /\ result' = Returned(1)
    /\ pc' = "exited"
    /\ UNCHANGED <<environ, argv, fs, token_file, model_checkpoints_dir, dataset_dir,
                   output_dir, hf_cache_dir, gpu_count, args, pretrained_checkpoint,
                   resolved_checkpoint, cmd, base_dir, found>>

\* lines 383-388
Launch ==
    /\ pc = "launch"
    /\ \/ \E returncode \in ReturnCodes :
            /\ child' = [state |-> "exited", returncode |-> returncode]
            /\ result' = Returned(returncode)
       \/ \E e \in LaunchErrors :
            /\ child' = [state |-> "unstartable", error |-> e]
            /\ result' = Returned(1)
    /\ pc' = "exited"
    /\ UNCHANGED <<environ, argv, fs, token_file, model_checkpoints_dir, dataset_dir,
                   output_dir, hf_cache_dir, gpu_count, args, pretrained_checkpoint,
                   resolved_checkpoint, cmd, base_dir, found>>

-----------------------------------------------------------------------------
(* The whole of main.  Each mount is either unresolved (its variables are  *)
(* unset, an unsubstituted ${{...}} placeholder, empty, or name a path     *)
(* that does not exist) or resolved; the two checkpoint mounts, when       *)
(* resolved, are empty or hold a checkpoint file.                          *)

\* what a mount's three variables can hold: three ways not to resolve, one to resolve
CkptEnv(resolved) == IF resolved THEN <<Placeholder, CkptMount, None>>
                     ELSE <<None, Placeholder, MissingPath>>

DataEnv(resolved) == IF resolved THEN <<DataMount, MissingPath, None>>
                     ELSE << <<>>, None, Placeholder>>

OutEnv(resolved) == IF resolved THEN <<None, MissingPath, OutMount>>
                    ELSE <<MissingPath, <<>>, None>>

CacheEnv(resolved) == IF resolved THEN << <<>>, CacheMount, MissingPath>>
                      ELSE <<Placeholder, None, None>>

SetVars(E, names, values) ==
    [n \in EnvNames |->
        IF \E k \in 1..Len(names) : names[k] = n
        THEN values[CHOOSE k \in 1..Len(names) : names[k] = n]
        ELSE E[n]]

RootFile(k) == [root |-> {k}, model |-> "none", listable |-> TRUE, snaps |-> <<>>]

\* a mount that is unresolved, resolved and empty, or resolved with a root checkpoint
MountStates == {"unresolved", "empty", "checkpoint"}

MountTree(state, k) == IF state = "checkpoint" THEN RootFile(k) ELSE EmptyTree

DirOnly(dir) == [paths |-> {dir}, dirs |-> {dir}, listing |-> <<>>, unlistable |-> {}]

Init ==
    /\ \E hf_token \in {None, <<>>, Secret},
          gpus \in {None, <<"8">>, <<"abc">>},
          ckpt \in MountStates, cache \in MountStates,
          data \in BOOLEAN, out \in BOOLEAN :
          /\ environ =
               SetVars(SetVars(SetVars(SetVars(
                   [NoEnviron EXCEPT ![HF_TOKEN] = hf_token, ![GPU_COUNT] = gpus],
                   CheckpointsDirVars, CkptEnv(ckpt # "unresolved")),
                   DatasetDirVars, DataEnv(data)),
                   OutputDirVars, OutEnv(out)),
                   HfCacheDirVars, CacheEnv(cache # "unresolved"))
          /\ fs = Merge(Merge(TreeFiles(CkptMount, MountTree(ckpt, 1)),
                              TreeFiles(CacheMount, MountTree(cache, 2))),
                        Merge(DirOnly(DataMount), DirOnly(OutMount)))
    /\ argv = None
    /\ token_file = None
    /\ pc = "setup_hf_token"
    /\ result = Idle
    /\ model_checkpoints_dir = None
    /\ dataset_dir = None
    /\ output_dir = None
    /\ hf_cache_dir = None
    /\ gpu_count = DEFAULT_GPU_COUNT
    /\ args = <<>>
    /\ pretrained_checkpoint = None
    /\ resolved_checkpoint = None
    /\ cmd = <<>>
    /\ child = NoChild
    /\ base_dir = None
    /\ found = None

Next ==
    \/ SetupHfToken
    \/ ResolveMounts
    \/ SetupModelCache
    \/ GpuCount
    \/ ProcessCommandLineArgs
    \/ AddToken
    \/ Step1Override
    \/ Step2LocalMount
    \/ Step3CacheMount
    \/ Step4RemoteFallback
    \/ AddCheckpoint
    \/ AddDirs
    \/ Launch

Spec == Init /\ [][Next]_vars

-----------------------------------------------------------------------------
(* The locator on its own: find_checkpoint_in_directory applied to every   *)
(* tree, and to an absent, an empty and a non-existent base directory.     *)

InitLocate ==
    /\ \E t \in Trees(MaxSnapshots, MaxFiles), d \in {None, <<>>, CkptMount, MissingPath} :
          /\ fs = TreeFiles(CkptMount, t)
          /\ base_dir = d
          /\ (d # CkptMount => t = EmptyTree)
    /\ environ = NoEnviron
    /\ argv = None
    /\ token_file = None
    /\ pc = "locate"
    /\ result = Idle
    /\ model_checkpoints_dir = None
    /\ dataset_dir = None
    /\ output_dir = None
    /\ hf_cache_dir = None
    /\ gpu_count = DEFAULT_GPU_COUNT
    /\ args = <<>>
    /\ pretrained_checkpoint = None
    /\ resolved_checkpoint = None
    /\ cmd = <<>>
    /\ child = NoChild
    /\ found = None

Locate ==
    /\ pc = "locate"
    /\ found' = FindCheckpointInDirectory(fs, base_dir)
    /\ pc' = "located"
    /\ UNCHANGED <<environ, argv, fs, token_file, result, model_checkpoints_dir,
                   dataset_dir, output_dir, hf_cache_dir, gpu_count, args,
                   pretrained_checkpoint, resolved_checkpoint, cmd, child, base_dir>>

NextLocate == Locate

SpecLocate == InitLocate /\ [][NextLocate]_vars

-----------------------------------------------------------------------------
(* The resolver on its own: resolve_pretrained_checkpoint applied to every *)
(* override, to absent, empty, existing and non-existent mount directories *)
(* and to mounts holding checkpoints at the root, in a snapshot, in a      *)
(* snapshot's checkpoints/ directory, or in a snapshot that cannot be      *)
(* listed.                                                                 *)

Overrides ==
    { None, <<>>, DEFAULT_HF_MODEL_ID, <<"CogACT", "/", "CogACT-Large">>,
      <<"CogACT", "/">>, <<"CogACT">>, <<"/mnt/ckpt", "/", "CogACT-Base.pt">>,
      <<"--hf_token">> }

OneSnapshot(files, ckdir, ckfiles, listable) ==
    [root |-> {}, model |-> "snapshots", listable |-> listable,
     snaps |-> << [isdir |-> TRUE, files |-> files, ckdir |-> ckdir, ckfiles |-> ckfiles] >>]

ResolveTrees ==
    { EmptyTree, RootFile(1), RootFile(2),
      [root |-> {1, 3}, model |-> "dir", listable |-> TRUE, snaps |-> <<>>],
      OneSnapshot({1}, FALSE, {}, TRUE),
      OneSnapshot({}, TRUE, {2}, TRUE),
      OneSnapshot({1}, FALSE, {}, FALSE) }

MountArguments(mount) == {None, <<>>, mount, MissingPath}

InitResolve ==
    /\ \E local \in ResolveTrees, cached \in ResolveTrees :
          fs = Merge(TreeFiles(CkptMount, local), TreeFiles(CacheMount, cached))
    /\ model_checkpoints_dir \in MountArguments(CkptMount)
    /\ hf_cache_dir \in MountArguments(CacheMount)
    /\ pretrained_checkpoint \in Overrides
    /\ environ = NoEnviron
    /\ argv = None
    /\ token_file = None
    /\ pc = "resolve_step1"
    /\ result = Idle
    /\ dataset_dir = None
    /\ output_dir = None
    /\ gpu_count = DEFAULT_GPU_COUNT
    /\ args = <<>>
    /\ resolved_checkpoint = None
    /\ cmd = <<>>
    /\ child = NoChild
    /\ base_dir = None
    /\ found = None

NextResolve ==
    \/ Step1Override
    \/ Step2LocalMount
    \/ Step3CacheMount
    \/ Step4RemoteFallback

SpecResolve == InitResolve /\ [][NextResolve]_vars

-----------------------------------------------------------------------------
(* What the claims speak of, stated from the claims' words and the         *)
(* filesystem rather than from the program's own steps.                    *)

\* the override is present and starts with "CogACT/"
HasNamespacePrefix(s) ==
    s # None /\ Len(s) >= 2 /\ s[1] = "CogACT" /\ s[2] = "/"

RECURSIVE Flatten(_)
Flatten(seqs) == IF Len(seqs) = 0 THEN <<>> ELSE Head(seqs) \o Flatten(Tail(seqs))

NamesUnder(dir) ==
    << dir \o <<"/", "CogACT-Base.pt">>,
       dir \o <<"/", "pytorch_model.bin">>,
       dir \o <<"/", "model.safetensors">> >>

\* the ordered candidate list of C9
CandidateList(F, dir) ==
    LET snapshots == dir \o <<"/", "models--CogACT--CogACT-Base", "/", "snapshots">>
        listed == IF snapshots \in F.paths /\ snapshots \notin F.unlistable
                  THEN F.listing[snapshots] ELSE <<>>
        IsSnapshotDir(id) == (snapshots \o <<"/">> \o id) \in F.dirs
        snapshot_dirs == SelectSeq(listed, IsSnapshotDir)
        Block(id) ==
            LET snapshot == snapshots \o <<"/">> \o id
            IN  NamesUnder(snapshot)
                \o (IF (snapshot \o <<"/", "checkpoints">>) \in F.paths
                    THEN NamesUnder(snapshot \o <<"/", "checkpoints">>) ELSE <<>>)
    IN  NamesUnder(dir)
        \o Flatten([k \in 1..Len(snapshot_dirs) |-> Block(snapshot_dirs[k])])

ExistingCandidates(F, dir) ==
    { k \in 1..Len(CandidateList(F, dir)) : CandidateList(F, dir)[k] \in F.paths }

\* a directory argument under which the search has something to find
YieldsMatch(F, dir) ==
    /\ dir \notin {None, <<>>}
    /\ dir \in F.paths
    /\ ExistingCandidates(F, dir) # {}

Count(seq, token) == Cardinality({ k \in 1..Len(seq) : seq[k] = token })

\* the token after position k, None at the end
ValueAt(seq, k) == IF k < Len(seq) THEN seq[k + 1] ELSE None

FlagTokens ==
    { <<"--pretrained_checkpoint">>, <<"--hf_token">>,
      <<"--data_root_dir">>, <<"--run_root_dir">> }

\* a is b with some tokens left out: what is there is unchanged and in b's order
RECURSIVE IsSubsequence(_, _)
IsSubsequence(a, b) ==
    IF Len(a) = 0 THEN TRUE
    ELSE IF Len(b) = 0 THEN FALSE
    ELSE IF Head(a) = Head(b) THEN IsSubsequence(Tail(a), Tail(b))
    ELSE IsSubsequence(a, Tail(b))

\* the --data_root_dir and --run_root_dir of the directories that resolved
DirectoryArguments ==
    (IF dataset_dir \notin {None, <<>>}
     THEN << <<"--data_root_dir">>, dataset_dir >> ELSE <<>>)
    \o (IF output_dir \notin {None, <<>>}
        THEN << <<"--run_root_dir">>, output_dir >> ELSE <<>>)

\* the pipeline's own insertions, in the order it appends them
Insertions ==
    << <<"--hf_token">>, <<"HF_TOKEN">>, <<"--pretrained_checkpoint">>, resolved_checkpoint >>
    \o DirectoryArguments

\* the processed arguments are complete: the command is assembled
Assembled == pc \in {"launch", "exited"}

\* an intercepted flag is the last token, with no value after it
TrailingInterceptedFlag(raw) ==
    /\ raw # None
    /\ Len(raw) > 0
    /\ raw[Len(raw)] \in { <<"--pretrained_checkpoint">>, <<"--hf_token">> }

\* the command line gives the credential, and only as the value of --hf_token
CredentialGivenByFlag(raw, credential) ==
    /\ raw # None
    /\ \E k \in 1..Len(raw) : raw[k] = credential
    /\ \A k \in 1..Len(raw) :
          raw[k] = credential => (k > 1 /\ raw[k - 1] = <<"--hf_token">>)

-----------------------------------------------------------------------------
C2_LocalMountFirst ==
    ( /\ pc = "add_checkpoint"
      /\ pretrained_checkpoint = None
      /\ model_checkpoints_dir \notin {None, <<>>}
      /\ (model_checkpoints_dir \o <<"/", "CogACT-Base.pt">>) \in fs.paths )
        => /\ resolved_checkpoint = model_checkpoints_dir \o <<"/", "CogACT-Base.pt">>
           /\ resolved_checkpoint # DEFAULT_HF_MODEL_ID
           /\ hf_cache_dir \notin {None, <<>>}
                 => SubSeq(resolved_checkpoint, 1, Len(hf_cache_dir)) # hf_cache_dir

\* the local CogACT-Base.pt is returned although the cache mount holds a match
C2_Witness ==
    /\ pc = "add_checkpoint"
    /\ pretrained_checkpoint = None
    /\ resolved_checkpoint = CkptMount \o <<"/", "CogACT-Base.pt">>
    /\ YieldsMatch(fs, hf_cache_dir)

(* C3: resolution is total.  Every step of the resolver has a next step    *)
(* until it returns, the steps are taken in order (so at most four), what  *)
(* is returned is a value and never "not found", and with an override that *)
(* lacks the prefix and no match under either mount the value is           *)
(* DEFAULT_HF_MODEL_ID.                                                    *)
ResolverStep(p) ==
    CASE p = "resolve_step1" -> 1
      [] p = "resolve_step2" -> 2
      [] p = "resolve_step3" -> 3
      [] p = "resolve_step4" -> 4
      [] OTHER -> 5

C3_ResolutionTotal ==
    /\ [](ResolverStep(pc) < 5 => (ENABLED NextResolve /\ resolved_checkpoint = None))
    /\ [][ResolverStep(pc') > ResolverStep(pc)]_vars
    /\ [](pc = "add_checkpoint"
            => /\ resolved_checkpoint \notin {None, <<>>}
               /\ ( /\ ~HasNamespacePrefix(pretrained_checkpoint)
                    /\ ~YieldsMatch(fs, model_checkpoints_dir)
                    /\ ~YieldsMatch(fs, hf_cache_dir) )
                     => resolved_checkpoint = DEFAULT_HF_MODEL_ID)

\* an override without the prefix and two mounts without a match end in the fallback
C3_Witness ==
    /\ pc = "add_checkpoint"
    /\ pretrained_checkpoint = <<"/mnt/ckpt", "/", "CogACT-Base.pt">>
    /\ model_checkpoints_dir = CkptMount
    /\ hf_cache_dir = CacheMount
    /\ ~YieldsMatch(fs, model_checkpoints_dir)
    /\ ~YieldsMatch(fs, hf_cache_dir)
    /\ resolved_checkpoint = DEFAULT_HF_MODEL_ID

(* C4: the credential that the command line gives as the value of          *)
(* --hf_token never appears as a token of the processed arguments, and the *)
(* token after each --hf_token of the processed arguments is "HF_TOKEN".   *)
C4_CredentialNotPassed ==
    (Assembled /\ CredentialGivenByFlag(argv, environ["HF_TOKEN"]))
        => /\ \A k \in 1..Len(args) : args[k] # environ["HF_TOKEN"]
           /\ \A k \in 1..Len(args) :
                 args[k] = <<"--hf_token">> => ValueAt(args, k) = <<"HF_TOKEN">>

C6_ExitStatus ==
    pc = "exited"
        => /\ child.state \in {"exited", "unstartable"}
           /\ child.state = "exited" => result = [kind |-> "returned", status |-> child.returncode]
           /\ child.state = "unstartable"
                 => /\ result = [kind |-> "returned", status |-> 1]
                    /\ "returncode" \notin DOMAIN child

\* a child killed by a signal: its negative status is what main returns
C6_Witness ==
    /\ pc = "exited"
    /\ child.state = "exited"
    /\ child.returncode < 0
    /\ result.status = child.returncode

(* C7 as stated: every flag of the processed arguments is copied from the  *)
(* command line or is one of the pipeline's insertions, and no flag        *)
(* appears twice with different values.                                    *)
C7_NoConflictingFlags ==
    Assembled
        => /\ Len(args) >= Len(Insertions)
           /\ IsSubsequence(SubSeq(args, 1, Len(args) - Len(Insertions)), argv)
           /\ SubSeq(args, Len(args) - Len(Insertions) + 1, Len(args)) = Insertions
           /\ \A i, j \in 1..Len(args) :
                 (args[i] \in FlagTokens /\ args[i] = args[j])
                    => ValueAt(args, i) = ValueAt(args, j)

(* C7 as amended: every flag of the processed arguments is copied from the *)
(* command line or is one of the pipeline's insertions, and each           *)
(* intercepted flag (--hf_token, --pretrained_checkpoint) appears exactly  *)
(* once, with the pipeline's value.  A pass-through flag of the command    *)
(* line is kept, also beside the pipeline's own --data_root_dir or         *)
(* --run_root_dir.                                                         *)
C7_InterceptedFlagsOnce ==
    Assembled
        => /\ Len(args) >= Len(Insertions)
           /\ IsSubsequence(SubSeq(args, 1, Len(args) - Len(Insertions)), argv)
           /\ SubSeq(args, Len(args) - Len(Insertions) + 1, Len(args)) = Insertions
           /\ Count(args, <<"--hf_token">>) = 1
           /\ Count(args, <<"--pretrained_checkpoint">>) = 1
           /\ \A k \in 1..Len(args) :
                 /\ args[k] = <<"--hf_token">> => ValueAt(args, k) = <<"HF_TOKEN">>
                 /\ args[k] = <<"--pretrained_checkpoint">>
                       => ValueAt(args, k) = resolved_checkpoint
           /\ Count(args, <<"--data_root_dir">>)
                 >= (IF dataset_dir \notin {None, <<>>} THEN 1 ELSE 0)
                    + Cardinality({ k \in 1..Len(argv) :
                         /\ argv[k] = <<"--data_root_dir">>
                         /\ k > 1 => argv[k - 1] \notin
                               { <<"--pretrained_checkpoint">>, <<"--hf_token">> } })

\* the command line's --data_root_dir stands beside the pipeline's, with another value,
\* and the command line's --hf_token is gone
C7_Witness ==
    /\ pc = "launch"
    /\ \E k \in 1..Len(argv) : argv[k] = <<"--hf_token">>
    /\ \E i, j \in 1..Len(args) :
          /\ args[i] = <<"--data_root_dir">>
          /\ args[j] = <<"--data_root_dir">>
          /\ ValueAt(args, i) # ValueAt(args, j)

(* C8 as stated: with the credential present, no unresolved auxiliary      *)
(* directory aborts the run before the command is assembled.               *)
C8_NoDirectoryAborts ==
    environ["HF_TOKEN"] \notin {None, <<>>}
        => ~( /\ result.kind = "raised"
              /\ result.at = "setup_model_cache"
              /\ result.exc = "ValueError" )

(* C8 as amended: an unresolved dataset directory never aborts the run,    *)
(* and an unresolved output directory does not when the cache directory    *)
(* resolves.  The run is aborted for its directories only in               *)
(* setup_model_cache: with ValueError when neither the output nor the      *)
(* cache directory resolves, with OSError when the fallback cache under    *)
(* the output directory cannot be created.  Otherwise the command is       *)
(* assembled, with --data_root_dir and --run_root_dir appended for         *)
(* exactly the directories that resolved.                                  *)
C8_DegradeByOmission ==
    /\ result.kind = "raised"
          => /\ result.at \in {"setup_hf_token", "setup_model_cache", "gpu_count"}
             /\ (result.at = "setup_model_cache" /\ result.exc = "ValueError")
                   => (hf_cache_dir = None /\ output_dir = None)
             /\ (result.at = "setup_model_cache" /\ result.exc # "ValueError")
                   => (hf_cache_dir = None /\ output_dir # None)
    /\ pc \in {"process_args", "add_token", "resolve_step1", "resolve_step2",
               "resolve_step3", "resolve_step4", "add_checkpoint", "add_dirs", "launch"}
          => /\ result.kind = "running"
             /\ hf_cache_dir # None \/ output_dir # None
             /\ ENABLED Next
    /\ Assembled
          => /\ Len(args) >= Len(DirectoryArguments) + 2
             /\ SubSeq(args, Len(args) - Len(DirectoryArguments) + 1, Len(args))
                   = DirectoryArguments
             /\ args[Len(args) - Len(DirectoryArguments) - 1] = <<"--pretrained_checkpoint">>
             /\ SubSeq(cmd, 6, Len(cmd)) = args

\* the command is assembled with neither the dataset nor the output directory
C8_Witness ==
    /\ pc = "launch"
    /\ dataset_dir = None
    /\ output_dir = None
    /\ Len(cmd) > 5
    /\ Count(args, <<"--data_root_dir">>) + Count(args, <<"--run_root_dir">>)
          = Count(argv, <<"--data_root_dir">>)

(* C9: find_checkpoint_in_directory returns None for an absent or          *)
(* non-existent base directory; otherwise the earliest existing path of    *)
(* the ordered candidate list (so a file at the base root wins over every  *)
(* snapshot file), and None only if no candidate exists.                   *)
C9_FirstExistingCandidate ==
    pc = "located"
        => IF base_dir \in {None, <<>>} \/ base_dir \notin fs.paths
           THEN found = None
           ELSE LET candidates == CandidateList(fs, base_dir)
                    hits == ExistingCandidates(fs, base_dir)
                IN  /\ hits = {} <=> found = None
                    /\ hits # {}
                          => found = candidates[CHOOSE k \in hits : \A j \in hits : k <= j]
                    /\ (\E k \in hits : k <= 3)
                          => \E k \in 1..3 : found = candidates[k]

\* a file at the base root is returned although a snapshot holds a file as well
C9_Witness ==
    /\ pc = "located"
    /\ \E k \in ExistingCandidates(fs, base_dir) : k <= 3
    /\ \E k \in ExistingCandidates(fs, base_dir) : k > 3
    /\ \E k \in 1..3 : found = CandidateList(fs, base_dir)[k]

(* C10: the scan and the extraction agree.  Every token removed is an      *)
(* intercepted flag or follows one, the others are passed through in       *)
(* order, the extracted override is a value the scan removed together with *)
(* a --pretrained_checkpoint flag, and no token passed through is also the *)
(* extracted override.                                                     *)
C10_ScanAndExtractionAgree ==
    pc = "add_token"
        => LET kept == KeptIndices(argv)
               preferred == PreferenceIndex(argv)
           IN  /\ \A k \in 1..Len(argv) :
                     (\A j \in 1..Len(kept) : kept[j] # k)
                        => \/ argv[k] \in { <<"--pretrained_checkpoint">>, <<"--hf_token">> }
                           \/ (k > 1 /\ argv[k - 1] \in
                                 { <<"--pretrained_checkpoint">>, <<"--hf_token">> })
               /\ \A j \in 1..Len(kept) : args[j] = argv[kept[j]]
               /\ \A i, j \in 1..Len(kept) : i < j => kept[i] < kept[j]
               /\ preferred # 0
                     => /\ pretrained_checkpoint = argv[preferred]
                        /\ argv[preferred - 1] = <<"--pretrained_checkpoint">>
                        /\ \A j \in 1..Len(kept) : kept[j] # preferred

====
